---- MODULE Spec2Model ----
(***************************************************************************)
(* terminalgpt: a command-line chat client.  The model covers              *)
(*   - the token counters (gpt.CountTokens, helpers.CountTokens),          *)
(*   - the request builders (gpt.CreatePayload, azure.GenerateCompletion), *)
(*   - the history stores (helpers.*History, gpt.loadHistory),             *)
(*   - the streaming reader (gpt.HandleResponse),                          *)
(*   - the command loops (cmd/main.go and the earlier gpt-based main).     *)
(* A text is a sequence of characters over a small alphabet:               *)
(*   "a", "b"  ordinary characters,                                        *)
(*   "x"       a byte that is not valid UTF-8,                             *)
(*   "r"       U+FFFD, the Unicode replacement rune.                       *)
(***************************************************************************)
EXTENDS Integers, Sequences, FiniteSets, TLC

VARIABLES
    cfg,        \* config.Config: the fields the core reads
    gptFile,    \* "history.json", the line-delimited file of package gpt
    histFile,   \* config.HistoryFile, the JSON-array file of package helpers
    req,        \* the completion call just made: what was built, sent and returned
    ret,        \* the history-store call just made and what it returned
    prev,       \* the call before it
    body,       \* the response body HandleResponse is reading
    hr,         \* HandleResponse: its position, accumulators and return values
    proc,       \* the process: which main runs, where it is, what it last showed
    gHistory,   \* g.history, the history GPT.New loaded (the main built on it)
    app         \* the calls of helpers.AppendHistory in progress, one per process

vars == <<cfg, gptFile, histFile, req, ret, prev, body, hr, proc, gHistory, app>>

----------------------------------------------------------------------------
(* Bounds of the model *)

MaxHist == 3        \* longest history drawn for a file
MaxStore == 2       \* most entries a store is grown to
MaxLines == 3       \* most complete lines of a response body
MaxSession == 4     \* most entries a session grows a history file to

----------------------------------------------------------------------------
(* Sequences *)

Last(s) == s[Len(s)]

RECURSIVE SeqsUpTo(_, _)
SeqsUpTo(S, n) ==
    IF n = 0 THEN {<<>>}
    ELSE LET shorter == SeqsUpTo(S, n - 1)
         IN  shorter \cup {Append(s, e) : s \in {t \in shorter : Len(t) = n - 1}, e \in S}

----------------------------------------------------------------------------
(* Token counters *)

\* tkm.Encode of tiktoken-go, by its length only: a deterministic count that
\* is not additive under concatenation (the pair "a","b" merges into one token).
RECURSIVE Encode(_)
Encode(text) ==
    IF text = <<>> THEN 0
    ELSE IF Len(text) >= 2 /\ text[1] = "a" /\ text[2] = "b"
         THEN 1 + Encode(SubSeq(text, 3, Len(text)))
         ELSE 1 + Encode(Tail(text))

\* tiktoken.EncodingForModel succeeds for these model names only
KnownModels == {"gpt-4"}

\* gpt.CountTokens (gpt.go): an unknown model is logged and counted as 0
CountTokens(text, modelName) ==
    IF modelName \notin KnownModels THEN 0 ELSE Encode(text)

\* helpers.CountTokens: ignores modelName, always the "gpt-4" encoding
HelpersCountTokens(text, modelName) ==
    IF "gpt-4" \notin KnownModels
    THEN [n |-> 0, err |-> TRUE]
    ELSE [n |-> Encode(text), err |-> FALSE]

----------------------------------------------------------------------------
(* encoding/json on strings *)

\* json.Marshal of a Go string: every invalid UTF-8 byte becomes U+FFFD
JSONString(s) == [i \in 1..Len(s) |-> IF s[i] = "x" THEN "r" ELSE s[i]]

\* json.Marshal of a {role, content} message
MarshalMsg(m) == [role |-> m.role, content |-> JSONString(m.content)]

MarshalMsgs(ms) == [i \in 1..Len(ms) |-> MarshalMsg(ms[i])]

----------------------------------------------------------------------------
(* The history files *)

AbsentFile == [kind |-> "absent", entries |-> <<>>]

\* gpt.loadHistory: a missing file is an empty history, an undecodable line an error
loadHistory(f) ==
    CASE f.kind = "absent" -> [err |-> FALSE, val |-> <<>>]
      [] f.kind = "lines" -> [err |-> FALSE, val |-> f.entries]
      [] OTHER -> [err |-> TRUE, val |-> <<>>]

\* Variant of LoadHistory for which a missing file is an error (sensitivity of C6).
LoadHistoryStrict(f) ==
    CASE f.kind = "array" -> [err |-> FALSE, val |-> f.entries]
      [] OTHER -> [err |-> TRUE, val |-> <<>>]

\* helpers.LoadHistory: a missing file is an empty history, an undecodable file an error
LoadHistory(f) ==
    CASE f.kind = "absent" -> [err |-> FALSE, val |-> <<>>]
      [] f.kind = "array" -> [err |-> FALSE, val |-> f.entries]
      [] OTHER -> [err |-> TRUE, val |-> <<>>]

----------------------------------------------------------------------------
(* The request builder of package gpt *)

Budget(c) == c.MaxTotalTokens - c.MaxTokens

InitialMessages(c, userMessage) ==
    << [role |-> "system", content |-> c.SystemMessage],
       [role |-> "user", content |-> userMessage] >>

\* Variant of TrimLoop that passes over an entry that does not fit and goes on
\* to the older ones (sensitivity of C3).
RECURSIVE TrimLoopSkip(_, _, _, _, _)
TrimLoopSkip(c, oldHistory, i, totalRequestTokens, history) ==
    IF i < 1 THEN [total |-> totalRequestTokens, history |-> history]
    ELSE LET historyTokens == CountTokens(oldHistory[i].content, c.ModelName)
         IN  IF totalRequestTokens + historyTokens <= c.MaxTotalTokens - c.MaxTokens
             THEN TrimLoopSkip(c, oldHistory, i - 1, totalRequestTokens + historyTokens,
                               <<oldHistory[i]>> \o history)
             ELSE TrimLoopSkip(c, oldHistory, i - 1, totalRequestTokens, history)

\* Variant of TrimLoop that takes an entry only when it leaves room to spare
\* (sensitivity of C24).
RECURSIVE TrimLoopStrict(_, _, _, _, _)
TrimLoopStrict(c, oldHistory, i, totalRequestTokens, history) ==
    IF i < 1 THEN [total |-> totalRequestTokens, history |-> history]
    ELSE LET historyTokens == CountTokens(oldHistory[i].content, c.ModelName)
         IN  IF totalRequestTokens + historyTokens < c.MaxTotalTokens - c.MaxTokens
             THEN TrimLoopStrict(c, oldHistory, i - 1, totalRequestTokens + historyTokens,
                                 <<oldHistory[i]>> \o history)
             ELSE [total |-> totalRequestTokens, history |-> history]

\* Variant of TrimLoop that adds the count of the entry that ends the loop to the
\* total (sensitivity of C30).
RECURSIVE TrimLoopCountsExcluded(_, _, _, _, _)
TrimLoopCountsExcluded(c, oldHistory, i, totalRequestTokens, history) ==
    IF i < 1 THEN [total |-> totalRequestTokens, history |-> history]
    ELSE LET historyTokens == CountTokens(oldHistory[i].content, c.ModelName)
         IN  IF totalRequestTokens + historyTokens <= c.MaxTotalTokens - c.MaxTokens
             THEN TrimLoopCountsExcluded(c, oldHistory, i - 1,
                                         totalRequestTokens + historyTokens,
                                         <<oldHistory[i]>> \o history)
             ELSE [total |-> totalRequestTokens + historyTokens, history |-> history]

\* The loop of CreatePayload over oldHistory[i], i = len-1 .. 0 (here Len .. 1):
\* an entry that fits is put in front of the list, the first that does not ends the loop.
RECURSIVE TrimLoop(_, _, _, _, _)
TrimLoop(c, oldHistory, i, totalRequestTokens, history) ==
    IF i < 1 THEN [total |-> totalRequestTokens, history |-> history]
    ELSE LET historyTokens == CountTokens(oldHistory[i].content, c.ModelName)
         IN  IF totalRequestTokens + historyTokens <= Budget(c)
             THEN TrimLoop(c, oldHistory, i - 1, totalRequestTokens + historyTokens,
                           <<oldHistory[i]>> \o history)
             ELSE [total |-> totalRequestTokens, history |-> history]

PayloadError == [err |-> TRUE, msgs |-> <<>>, total |-> 0]

\* Variant of CreatePayload without the check of the system and user message
\* against the budget (sensitivity of C2).
CreatePayloadNoPrecheck(c, file, userMessage) ==
    LET total0 == CountTokens(userMessage, c.ModelName)
                    + CountTokens(c.SystemMessage, c.ModelName)
        old == loadHistory(file)
        trimmed == TrimLoop(c, old.val, Len(old.val), total0,
                            InitialMessages(c, userMessage))
    IN  IF ~c.History
        THEN [err |-> FALSE, msgs |-> MarshalMsgs(InitialMessages(c, userMessage)),
              total |-> total0]
        ELSE IF old.err THEN PayloadError
        ELSE [err |-> FALSE, msgs |-> MarshalMsgs(trimmed.history), total |-> trimmed.total]

\* GPT.CreatePayload: (payload, totalRequestTokens, error); msgs is the "messages"
\* member of the payload, as json.Marshal writes it.
CreatePayload(c, file, userMessage) ==
    LET total0 == CountTokens(userMessage, c.ModelName)
                    + CountTokens(c.SystemMessage, c.ModelName)
        old == loadHistory(file)
        trimmed == TrimLoop(c, old.val, Len(old.val), total0,
                            InitialMessages(c, userMessage))
    IN  IF total0 > Budget(c) THEN PayloadError
        ELSE IF ~c.History
             THEN [err |-> FALSE, msgs |-> MarshalMsgs(InitialMessages(c, userMessage)),
                   total |-> total0]
        ELSE IF old.err THEN PayloadError
        ELSE [err |-> FALSE, msgs |-> MarshalMsgs(trimmed.history), total |-> trimmed.total]

\* GPT.CreatePayload of the revision whose GPT keeps g.history, loaded by New:
\* CountTokens returns an error for an unknown model, and the loop runs over
\* g.history
SnapshotCreatePayload(c, history, userMessage) ==
    LET total0 == CountTokens(userMessage, c.ModelName)
                    + CountTokens(c.SystemMessage, c.ModelName)
        trimmed == TrimLoop(c, history, Len(history), total0,
                            InitialMessages(c, userMessage))
    IN  IF c.ModelName \notin KnownModels THEN PayloadError
        ELSE IF total0 > Budget(c) THEN PayloadError
        ELSE IF ~c.History
             THEN [err |-> FALSE, msgs |-> MarshalMsgs(InitialMessages(c, userMessage)),
                   total |-> total0]
        ELSE [err |-> FALSE, msgs |-> MarshalMsgs(trimmed.history), total |-> trimmed.total]

----------------------------------------------------------------------------
(* The streamed response *)

\* A line of the body: whether it starts with "data: ", and what follows the marker:
\*   "done"     text that strings.TrimSpace reduces to [DONE]
\*   "event"    a JSON object; choices is what json.Unmarshal finds under "choices"
\*   "garbage"  text that is not JSON
Line(prefix, kind, choices) == [prefix |-> prefix, kind |-> kind, choices |-> choices]

Choice(content, finish) == [content |-> content, finish |-> finish]

EvA == Line(TRUE, "event", <<Choice(<<"a">>, "")>>)
EvB == Line(TRUE, "event", <<Choice(<<"b">>, "")>>)
EvStop == Line(TRUE, "event", <<Choice(<<"b">>, "stop")>>)
EvNewline == Line(TRUE, "event", <<Choice(<<"a", "n", "b">>, "")>>)
EvNoChoices == Line(TRUE, "event", <<>>)
DoneLine == Line(TRUE, "done", <<>>)
GarbageLine == Line(TRUE, "garbage", <<>>)
BlankLine == Line(FALSE, "garbage", <<>>)
UnmarkedEvent == Line(FALSE, "event", <<Choice(<<"a">>, "")>>)

NoBody == [lines |-> <<>>, tail |-> <<>>, end |-> "EOF"]

\* the state of HandleResponse before its first read
HRStart ==
    [st |-> "reading", pos |-> 1, assistantMsg |-> <<>>, totalResponseTokens |-> 0,
     decoded |-> 0, sawDone |-> FALSE, reply |-> <<>>, tokens |-> 0]

HRReturnErr(h) == [h EXCEPT !.st = "err", !.reply = <<>>, !.tokens = 0]

\* strings.ReplaceAll(content, "\n", "\n\t") of the later HandleResponse: a tab
\* ("t") after every newline ("n")
RECURSIVE Tabbed(_)
Tabbed(text) ==
    IF text = <<>> THEN <<>>
    ELSE IF text[1] = "n" THEN <<"n", "t">> \o Tabbed(Tail(text))
    ELSE <<text[1]>> \o Tabbed(Tail(text))

\* Variant of HRStep that hands the sentinel to the decoder, which rejects it
\* (sensitivity of C11).
HRStepDecodesSentinel(h, b, modelName, tab) ==
    IF h.pos > Len(b.lines)
    THEN IF b.end = "EOF"
         THEN [h EXCEPT !.st = "ok", !.reply = h.assistantMsg,
                        !.tokens = h.totalResponseTokens]
         ELSE HRReturnErr(h)
    ELSE LET line == b.lines[h.pos]
             next == [h EXCEPT !.pos = h.pos + 1]
         IN  IF ~line.prefix THEN next
             ELSE IF line.kind = "done"
                  THEN HRReturnErr([next EXCEPT !.sawDone = TRUE,
                                                !.decoded = h.decoded + 1])
             ELSE IF line.kind = "garbage"
                  THEN HRReturnErr([next EXCEPT !.decoded = h.decoded + 1])
             ELSE IF line.choices = <<>>
                  THEN [next EXCEPT !.decoded = h.decoded + 1, !.st = "panic"]
             ELSE IF tab /\ modelName \notin KnownModels
                  THEN HRReturnErr([next EXCEPT !.decoded = h.decoded + 1])
             ELSE [next EXCEPT
                      !.decoded = h.decoded + 1,
                      !.totalResponseTokens =
                          h.totalResponseTokens
                            + CountTokens(line.choices[1].content, modelName),
                      !.assistantMsg =
                          h.assistantMsg
                            \o (IF tab THEN Tabbed(line.choices[1].content)
                                ELSE line.choices[1].content)]

\* Variant of HRStep that passes over a line that does not decode and reads on
\* (sensitivity of C13).
HRStepSkipsGarbage(h, b, modelName, tab) ==
    IF h.pos > Len(b.lines)
    THEN IF b.end = "EOF"
         THEN [h EXCEPT !.st = "ok", !.reply = h.assistantMsg,
                        !.tokens = h.totalResponseTokens]
         ELSE HRReturnErr(h)
    ELSE LET line == b.lines[h.pos]
             next == [h EXCEPT !.pos = h.pos + 1]
         IN  IF ~line.prefix THEN next
             ELSE IF line.kind = "done" THEN [next EXCEPT !.sawDone = TRUE]
             ELSE IF line.kind = "garbage"
                  THEN [next EXCEPT !.decoded = h.decoded + 1]
             ELSE IF line.choices = <<>>
                  THEN [next EXCEPT !.decoded = h.decoded + 1, !.st = "panic"]
             ELSE IF tab /\ modelName \notin KnownModels
                  THEN HRReturnErr([next EXCEPT !.decoded = h.decoded + 1])
             ELSE [next EXCEPT
                      !.decoded = h.decoded + 1,
                      !.totalResponseTokens =
                          h.totalResponseTokens
                            + CountTokens(line.choices[1].content, modelName),
                      !.assistantMsg =
                          h.assistantMsg
                            \o (IF tab THEN Tabbed(line.choices[1].content)
                                ELSE line.choices[1].content)]

\* Variant of HRStep that ends the loop on any read error as on end of file
\* (sensitivity of C14).
HRStepErrIsEOF(h, b, modelName, tab) ==
    IF h.pos > Len(b.lines)
    THEN [h EXCEPT !.st = "ok", !.reply = h.assistantMsg,
                   !.tokens = h.totalResponseTokens]
    ELSE LET line == b.lines[h.pos]
             next == [h EXCEPT !.pos = h.pos + 1]
         IN  IF ~line.prefix THEN next
             ELSE IF line.kind = "done" THEN [next EXCEPT !.sawDone = TRUE]
             ELSE IF line.kind = "garbage"
                  THEN HRReturnErr([next EXCEPT !.decoded = h.decoded + 1])
             ELSE IF line.choices = <<>>
                  THEN [next EXCEPT !.decoded = h.decoded + 1, !.st = "panic"]
             ELSE IF tab /\ modelName \notin KnownModels
                  THEN HRReturnErr([next EXCEPT !.decoded = h.decoded + 1])
             ELSE [next EXCEPT
                      !.decoded = h.decoded + 1,
                      !.totalResponseTokens =
                          h.totalResponseTokens
                            + CountTokens(line.choices[1].content, modelName),
                      !.assistantMsg =
                          h.assistantMsg
                            \o (IF tab THEN Tabbed(line.choices[1].content)
                                ELSE line.choices[1].content)]

\* Variant of HRStep that does not test for the marker and decodes every line
\* (sensitivity of C26).
HRStepDecodesUnmarked(h, b, modelName, tab) ==
    IF h.pos > Len(b.lines)
    THEN IF b.end = "EOF"
         THEN [h EXCEPT !.st = "ok", !.reply = h.assistantMsg,
                        !.tokens = h.totalResponseTokens]
         ELSE HRReturnErr(h)
    ELSE LET line == b.lines[h.pos]
             next == [h EXCEPT !.pos = h.pos + 1]
         IN  IF line.kind = "done" THEN [next EXCEPT !.sawDone = TRUE]
             ELSE IF line.kind = "garbage"
                  THEN HRReturnErr([next EXCEPT !.decoded = h.decoded + 1])
             ELSE IF line.choices = <<>>
                  THEN [next EXCEPT !.decoded = h.decoded + 1, !.st = "panic"]
             ELSE IF tab /\ modelName \notin KnownModels
                  THEN HRReturnErr([next EXCEPT !.decoded = h.decoded + 1])
             ELSE [next EXCEPT
                      !.decoded = h.decoded + 1,
                      !.totalResponseTokens =
                          h.totalResponseTokens
                            + CountTokens(line.choices[1].content, modelName),
                      !.assistantMsg =
                          h.assistantMsg
                            \o (IF tab THEN Tabbed(line.choices[1].content)
                                ELSE line.choices[1].content)]

\* Variant of HRStep that, at the end of the file, still handles an event that
\* came without a newline (sensitivity of C28).
HRStepKeepsLastLine(h, b, modelName, tab) ==
    IF h.pos > Len(b.lines)
    THEN IF b.end = "EOF"
         THEN LET last == IF b.tail = <<>> THEN <<>> ELSE b.tail[1].choices[1].content
              IN  [h EXCEPT !.st = "ok", !.reply = h.assistantMsg \o last,
                            !.tokens = h.totalResponseTokens
                                         + CountTokens(last, modelName)]
         ELSE HRReturnErr(h)
    ELSE LET line == b.lines[h.pos]
             next == [h EXCEPT !.pos = h.pos + 1]
         IN  IF ~line.prefix THEN next
             ELSE IF line.kind = "done" THEN [next EXCEPT !.sawDone = TRUE]
             ELSE IF line.kind = "garbage"
                  THEN HRReturnErr([next EXCEPT !.decoded = h.decoded + 1])
             ELSE IF line.choices = <<>>
                  THEN [next EXCEPT !.decoded = h.decoded + 1, !.st = "panic"]
             ELSE IF tab /\ modelName \notin KnownModels
                  THEN HRReturnErr([next EXCEPT !.decoded = h.decoded + 1])
             ELSE [next EXCEPT
                      !.decoded = h.decoded + 1,
                      !.totalResponseTokens =
                          h.totalResponseTokens
                            + CountTokens(line.choices[1].content, modelName),
                      !.assistantMsg =
                          h.assistantMsg
                            \o (IF tab THEN Tabbed(line.choices[1].content)
                                ELSE line.choices[1].content)]

\* One pass of the for loop of GPT.HandleResponse.  b.lines are the
\* newline-terminated lines, b.tail what follows the last newline, b.end how the
\* reader ends ("EOF" or "err").  decoded counts the calls of json.Unmarshal;
\* tab is FALSE for gpt.go and TRUE for the later revision, which tabs each chunk
\* and returns the error of its CountTokens.
HRStep(h, b, modelName, tab) ==
    IF h.pos > Len(b.lines)
    THEN IF b.end = "EOF"
         THEN [h EXCEPT !.st = "ok", !.reply = h.assistantMsg,
                        !.tokens = h.totalResponseTokens]
         ELSE HRReturnErr(h)
    ELSE LET line == b.lines[h.pos]
             next == [h EXCEPT !.pos = h.pos + 1]
         IN  IF ~line.prefix THEN next
             ELSE IF line.kind = "done" THEN [next EXCEPT !.sawDone = TRUE]
             ELSE IF line.kind = "garbage"
                  THEN HRReturnErr([next EXCEPT !.decoded = h.decoded + 1])
             ELSE IF line.choices = <<>>
                  THEN [next EXCEPT !.decoded = h.decoded + 1, !.st = "panic"]
             ELSE IF tab /\ modelName \notin KnownModels
                  THEN HRReturnErr([next EXCEPT !.decoded = h.decoded + 1])
             ELSE [next EXCEPT
                      !.decoded = h.decoded + 1,
                      !.totalResponseTokens =
                          h.totalResponseTokens
                            + CountTokens(line.choices[1].content, modelName),
                      !.assistantMsg =
                          h.assistantMsg
                            \o (IF tab THEN Tabbed(line.choices[1].content)
                                ELSE line.choices[1].content)]

RECURSIVE HRRun(_, _, _, _)
HRRun(h, b, modelName, tab) ==
    IF h.st # "reading" THEN h ELSE HRRun(HRStep(h, b, modelName, tab), b, modelName, tab)

\* GPT.HandleResponse, from the first read to its return (or its panic)
HandleResponse(b, modelName, tab) == HRRun(HRStart, b, modelName, tab)

----------------------------------------------------------------------------
(* A completion call *)

NoRequest ==
    [path |-> "none", user |-> <<>>, sent |-> FALSE, msgs |-> <<>>, total |-> 0,
     err |-> FALSE, panic |-> FALSE, reply |-> <<>>, responseTokens |-> 0,
     sends |-> 0, logged |-> FALSE]

\* GPT.GenerateCompletion (gpt.go): build, send, read.  net is the outcome of
\* client.Do, body the response it returns.
\* The body of GPT.GenerateCompletion after CreatePayload returned p: on its
\* error return it, else send; on the error of client.Do return it, else read the
\* response, whose outcome is h.  sends counts the calls of client.Do; logged
\* tells that the failing layer wrote the error to the log (HandleResponse does,
\* CreatePayload and client.Do do not).
SendAndRead(p, userMessage, net, h) ==
    LET call == [NoRequest EXCEPT !.path = "openai", !.user = userMessage]
    IN  IF p.err THEN [call EXCEPT !.err = TRUE]
        ELSE LET sent == [call EXCEPT !.sent = TRUE, !.msgs = p.msgs, !.total = p.total,
                                      !.sends = 1]
             IN  IF net # "ok" THEN [sent EXCEPT !.err = TRUE]
                 ELSE IF h.st = "panic" THEN [sent EXCEPT !.panic = TRUE]
                 ELSE IF h.st = "err" THEN [sent EXCEPT !.err = TRUE, !.logged = TRUE]
                 ELSE [sent EXCEPT !.reply = h.reply, !.responseTokens = h.tokens]

GenerateCompletion(c, file, userMessage, net, b) ==
    SendAndRead(CreatePayload(c, file, userMessage), userMessage, net,
                HandleResponse(b, c.ModelName, FALSE))

\* GPT.GenerateCompletion of the revision whose GPT keeps g.history
SnapshotGenerateCompletion(c, history, userMessage, net, b) ==
    SendAndRead(SnapshotCreatePayload(c, history, userMessage), userMessage, net,
                HandleResponse(b, c.ModelName, TRUE))

\* The read loop of azure.GenerateCompletion: every decoded event's choices are
\* counted; the function returns no reply text.
RECURSIVE AzureChoices(_, _, _)
AzureChoices(choices, i, responseTokens) ==
    IF i > Len(choices) THEN responseTokens
    ELSE AzureChoices(choices, i + 1,
            IF choices[i].content = <<>> THEN responseTokens
            ELSE responseTokens + HelpersCountTokens(choices[i].content, "gpt-4").n)

RECURSIVE AzureRead(_, _, _)
AzureRead(b, pos, responseTokens) ==
    IF pos > Len(b.lines)
    THEN [err |-> b.end # "EOF", responseTokens |-> responseTokens]
    ELSE AzureRead(b, pos + 1, AzureChoices(b.lines[pos].choices, 1, responseTokens))

\* The messages of azure.GenerateCompletion: system and user first, then every
\* history entry put in front of the list, in the order of the history.
RECURSIVE AzureMessages(_, _, _)
AzureMessages(history, i, messages) ==
    IF i > Len(history) THEN messages
    ELSE AzureMessages(history, i + 1,
            <<[role |-> history[i].role, content |-> history[i].content]>> \o messages)

\* common.GenerateCompletion with cfg.AIProvider = "azure": load the history,
\* then azure.GenerateCompletion
AzureGenerateCompletion(c, file, userMessage, net, b) ==
    LET old == LoadHistory(file)
        messages == AzureMessages(old.val, 1,
                        << [role |-> "system", content |-> c.SystemMessage],
                           [role |-> "user", content |-> userMessage] >>)
        rd == AzureRead(b, 1, 0)
        call == [NoRequest EXCEPT !.path = "azure", !.user = userMessage]
    IN  IF old.err THEN [call EXCEPT !.err = TRUE]
        ELSE LET sent == [call EXCEPT !.sent = TRUE, !.msgs = MarshalMsgs(messages),
                                      !.total = 0, !.sends = 1]
             IN  IF net # "ok" \/ rd.err THEN [sent EXCEPT !.err = TRUE, !.logged = TRUE]
                 ELSE [sent EXCEPT !.responseTokens = rd.responseTokens]

----------------------------------------------------------------------------
(* Calls of the history stores, as the callers see them *)

\* the processes that share one history file
Procs == {1, 2}

\* a process outside AppendHistory: nothing loaded, nothing returned
NoAppend == [pc |-> "idle", entry |-> [role |-> "", content |-> <<>>, tokenCount |-> 0],
             loaded |-> <<>>, history |-> <<>>, err |-> FALSE]

NoAppends == [p \in Procs |-> NoAppend]

NoProcess == [entry |-> "none", pc |-> "none", exit |-> -1, single |-> FALSE,
              cmd |-> "none", shown |-> "none"]

NoEntry == [role |-> "", content |-> <<>>, tokenCount |-> 0]

NoCall == [op |-> "none", err |-> FALSE, entry |-> NoEntry, val |-> <<>>,
           before |-> "absent"]

Brief(call) ==
    [op |-> call.op, err |-> call.err, entry |-> call.entry, before |-> call.before]

----------------------------------------------------------------------------
(* The history store of package helpers *)

\* json.Marshal of a HistoryEntry
MarshalEntry(e) ==
    [role |-> e.role, content |-> JSONString(e.content), tokenCount |-> e.tokenCount]

MarshalEntries(es) == [i \in 1..Len(es) |-> MarshalEntry(es[i])]

IOOutcomes == {"ok", "openfail", "writefail"}

\* Variant of AppendHistoryOp that stores the token count the caller passed
\* (sensitivity of C5).
AppendHistoryKeepCount(file, entry, io) ==
    LET history == LoadHistory(file)
    IN  IF history.err THEN [file |-> file, err |-> TRUE]
        ELSE IF io = "openfail" THEN [file |-> file, err |-> TRUE]
        ELSE IF io = "writefail"
             THEN [file |-> [kind |-> "corrupt", entries |-> <<>>], err |-> TRUE]
        ELSE [file |-> [kind |-> "array",
                        entries |-> MarshalEntries(Append(history.val, entry))],
              err |-> FALSE]

\* helpers.AppendHistory: count the tokens, load, append, truncate and rewrite.
\* io is what the file system does: "openfail" fails os.OpenFile, "writefail"
\* fails file.Write after the truncation.
AppendHistoryOp(file, entry, io) ==
    LET counted == [entry EXCEPT
                       !.tokenCount = HelpersCountTokens(entry.content, "gpt-4").n]
        history == LoadHistory(file)
    IN  IF history.err THEN [file |-> file, err |-> TRUE]
        ELSE IF io = "openfail" THEN [file |-> file, err |-> TRUE]
        ELSE IF io = "writefail"
             THEN [file |-> [kind |-> "corrupt", entries |-> <<>>], err |-> TRUE]
        ELSE [file |-> [kind |-> "array",
                        entries |-> MarshalEntries(Append(history.val, counted))],
              err |-> FALSE]

\* Variant of ClearHistoryOp that reports success and leaves the file in place
\* (sensitivity of C7).
ClearHistoryKeep(file, io) ==
    IF file.kind = "absent" \/ io # "ok"
    THEN [file |-> file, err |-> TRUE]
    ELSE [file |-> file, err |-> FALSE]

\* Variant of ClearHistoryOp for which a missing file is no error (sensitivity of C8).
ClearHistoryIgnoreMissing(file, io) ==
    IF file.kind = "absent" THEN [file |-> file, err |-> FALSE]
    ELSE IF io # "ok" THEN [file |-> file, err |-> TRUE]
    ELSE [file |-> AbsentFile, err |-> FALSE]

\* helpers.ClearHistory: os.Remove, whose error is returned (a missing file is one)
ClearHistoryOp(file, io) ==
    IF file.kind = "absent" \/ io # "ok"
    THEN [file |-> file, err |-> TRUE]
    ELSE [file |-> AbsentFile, err |-> FALSE]

----------------------------------------------------------------------------
(* The history file of package gpt *)

\* GPT.AppendHistory: open for append (created when missing), write one JSON line
GPTAppendHistoryOp(file, message, io) ==
    IF io = "openfail" THEN [file |-> file, err |-> TRUE]
    ELSE IF io = "writefail"
         THEN [file |-> [kind |-> "corrupt", entries |-> <<>>], err |-> TRUE]
    ELSE IF file.kind = "corrupt" THEN [file |-> file, err |-> FALSE]
    ELSE [file |-> [kind |-> "lines", entries |-> Append(file.entries, MarshalMsg(message))],
          err |-> FALSE]

\* GPT.ClearHistory: os.Remove("history.json"), whose error is returned
GPTClearHistoryOp(file, io) ==
    IF file.kind = "absent" \/ io # "ok"
    THEN [file |-> file, err |-> TRUE]
    ELSE [file |-> AbsentFile, err |-> FALSE]

----------------------------------------------------------------------------
(* Request building: the inputs are drawn, the two providers build and send *)

SystemTexts == {<<"a">>, <<"b", "a">>}
UserTexts == {<<"b">>, <<"b", "b">>, <<"x", "b", "b">>}
TotalChoices == {2, 6, 9}
ResponseChoices == {1, 3}
ModelNames == {"gpt-4", "no-such-model"}
Providers == {"openai", "azure"}

Configs ==
    [ModelName : ModelNames, MaxTotalTokens : TotalChoices, MaxTokens : ResponseChoices,
     History : BOOLEAN, SystemMessage : SystemTexts, AIProvider : Providers]

\* what a history file can hold: entries of one, two and three tokens
GptEntries ==
    { [role |-> "user", content |-> <<"a">>],
      [role |-> "assistant", content |-> <<"b", "b">>],
      [role |-> "user", content |-> <<"a", "a", "a">>] }

Stored(m) == [role |-> m.role, content |-> m.content, tokenCount |-> Encode(m.content)]

GptFiles ==
    {AbsentFile, [kind |-> "corrupt", entries |-> <<>>]}
      \cup {[kind |-> "lines", entries |-> h] : h \in SeqsUpTo(GptEntries, MaxHist)}

HistFiles ==
    {AbsentFile, [kind |-> "corrupt", entries |-> <<>>]}
      \cup {[kind |-> "array", entries |-> [i \in 1..Len(h) |-> Stored(h[i])]] :
                h \in SeqsUpTo(GptEntries, MaxHist)}

\* the responses a completion call is given
BodySamples ==
    { [lines |-> <<EvA, EvStop, DoneLine>>, tail |-> <<>>, end |-> "EOF"],
      [lines |-> <<EvA, GarbageLine>>, tail |-> <<>>, end |-> "EOF"],
      [lines |-> <<EvA>>, tail |-> <<>>, end |-> "err"] }

NetOutcomes == {"ok", "fail"}

InitPayload ==
    /\ cfg \in Configs
    /\ \/ cfg.AIProvider = "openai" /\ gptFile \in GptFiles /\ histFile = AbsentFile
       \/ cfg.AIProvider = "azure" /\ gptFile = AbsentFile /\ histFile \in HistFiles
    /\ req = NoRequest
    /\ ret = NoCall
    /\ prev = Brief(NoCall)
    /\ body = NoBody
    /\ hr = HRStart
    /\ proc = NoProcess
    /\ gHistory = <<>>
    /\ app = NoAppends

\* common.GenerateCompletion, provider other than "azure"
CompleteOpenAI ==
    /\ cfg.AIProvider # "azure"
    /\ \E userMessage \in UserTexts, net \in NetOutcomes, b \in BodySamples :
          req' = GenerateCompletion(cfg, gptFile, userMessage, net, b)
    /\ UNCHANGED <<cfg, gptFile, histFile, ret, prev, body, hr, proc, gHistory, app>>

\* common.GenerateCompletion, provider "azure"
CompleteAzure ==
    /\ cfg.AIProvider = "azure"
    /\ \E userMessage \in UserTexts, net \in NetOutcomes, b \in BodySamples :
          req' = AzureGenerateCompletion(cfg, histFile, userMessage, net, b)
    /\ UNCHANGED <<cfg, gptFile, histFile, ret, prev, body, hr, proc, gHistory, app>>

NextPayload == CompleteOpenAI \/ CompleteAzure

SpecPayload == InitPayload /\ [][NextPayload]_vars

----------------------------------------------------------------------------
(* Claims about the request *)

RECURSIVE SumTokens(_, _)
SumTokens(msgs, modelName) ==
    IF msgs = <<>> THEN 0
    ELSE CountTokens(msgs[1].content, modelName) + SumTokens(Tail(msgs), modelName)

\* the history the builder of the call chose from
Candidates ==
    IF req.path = "azure" THEN [i \in 1..Len(LoadHistory(histFile).val) |->
                                   [role |-> LoadHistory(histFile).val[i].role,
                                    content |-> LoadHistory(histFile).val[i].content]]
    ELSE IF cfg.History THEN loadHistory(gptFile).val
    ELSE <<>>

Suffixes(h) == {SubSeq(h, k, Len(h)) : k \in 1..(Len(h) + 1)}

SystemMsg == MarshalMsg([role |-> "system", content |-> cfg.SystemMessage])
UserMsg == MarshalMsg([role |-> "user", content |-> req.user])

\* C1: every request sent, by either provider, carries at most
\* MaxTotalTokens - MaxResponseTokens tokens, summed over all its messages.
C1_SentWithinBudget ==
    req.sent => SumTokens(req.msgs, cfg.ModelName) <= Budget(cfg)

\* C2: when the system and user message alone exceed the budget, CreatePayload
\* fails and GenerateCompletion returns the error with nothing sent.
C2_OverBudgetNothingSent ==
    (/\ req.path = "openai"
     /\ CountTokens(cfg.SystemMessage, cfg.ModelName)
          + CountTokens(req.user, cfg.ModelName) > Budget(cfg))
    => (req.err /\ ~req.sent /\ req.msgs = <<>>)

C2_Witness ==
    /\ req.path = "openai"
    /\ cfg.ModelName \in KnownModels
    /\ Budget(cfg) >= 0
    /\ CountTokens(cfg.SystemMessage, cfg.ModelName)
          + CountTokens(req.user, cfg.ModelName) > Budget(cfg)
    /\ req.err /\ ~req.sent

\* the history entries of a payload of CreatePayload: all but its last two messages
IncludedHistory == SubSeq(req.msgs, 1, Len(req.msgs) - 2)

\* C3: the history entries CreatePayload includes are a contiguous suffix of the
\* stored history, in the stored (oldest-to-newest) order.
C3_WindowIsSuffix ==
    (req.path = "openai" /\ req.sent) => IncludedHistory \in Suffixes(Candidates)

C3_Witness ==
    /\ req.path = "openai" /\ req.sent
    /\ Len(IncludedHistory) >= 2
    /\ Len(IncludedHistory) < Len(Candidates)
    /\ IncludedHistory[1] # IncludedHistory[2]
    /\ IncludedHistory \in Suffixes(Candidates)

\* C4: every request has the shape [system] + [history, oldest first] + [user].
C4_SystemHistoryUser ==
    req.sent =>
        \E h \in Suffixes(Candidates) : req.msgs = <<SystemMsg>> \o h \o <<UserMsg>>

\* C20: the token counter fails for a model without a known encoding and
\* returns no count for it, so that no budget check or trimming of the OpenAI
\* path runs on such counts: the call fails and nothing is sent.
C20_UnknownModelFails ==
    (req.path = "openai" /\ cfg.ModelName \notin KnownModels)
    => (req.err /\ ~req.sent)

\* the number of history entries in the request, and of entries to choose from
Taken == Len(req.msgs) - 2
Offered == Len(Candidates)

\* C24: the trimmer takes entries from the newest on and stops at the first that
\* does not fit: the entries taken are the newest ones, and either all are taken
\* or the total with the newest entry left out exceeds the budget (older entries
\* stay out even when they would fit).
C24_WindowIsMaximal ==
    (req.path = "openai" /\ req.sent) =>
        /\ Taken <= Offered
        /\ IncludedHistory = SubSeq(Candidates, Offered - Taken + 1, Offered)
        /\ \/ Taken = Offered
           \/ req.total + CountTokens(Candidates[Offered - Taken].content, cfg.ModelName)
                > Budget(cfg)

C24_Witness ==
    /\ req.path = "openai" /\ req.sent
    /\ Taken >= 1 /\ Taken < Offered - 1
    /\ req.total + CountTokens(Candidates[Offered - Taken].content, cfg.ModelName)
         > Budget(cfg)
    /\ \E i \in 1..(Offered - Taken - 1) :
          req.total + CountTokens(Candidates[i].content, cfg.ModelName) <= Budget(cfg)

\* C30: the total CreatePayload returns is the sum of the counts of the messages
\* of the payload: the system message, the history entries taken and the user
\* message; with History off these are the system and the user message alone.
C30_TotalIsSumOfPayload ==
    (req.path = "openai" /\ req.sent) =>
        /\ Taken <= Offered
        /\ req.total = SumTokens(req.msgs, cfg.ModelName)
        /\ req.total =
              CountTokens(cfg.SystemMessage, cfg.ModelName)
                + SumTokens(SubSeq(Candidates, Offered - Taken + 1, Offered), cfg.ModelName)
                + CountTokens(req.user, cfg.ModelName)
        /\ ~cfg.History =>
              /\ req.msgs = <<SystemMsg, UserMsg>>
              /\ req.total = CountTokens(cfg.SystemMessage, cfg.ModelName)
                               + CountTokens(req.user, cfg.ModelName)

C30_Witness ==
    /\ req.path = "openai" /\ req.sent
    /\ cfg.History /\ cfg.ModelName \in KnownModels
    /\ Taken = 2 /\ Offered = 3
    /\ req.total = SumTokens(req.msgs, cfg.ModelName)
    /\ req.total > CountTokens(cfg.SystemMessage, cfg.ModelName)
                     + CountTokens(req.user, cfg.ModelName) + 2

----------------------------------------------------------------------------
(* The history stores in use: appends, loads, clears and completion calls *)

\* the entries callers append: both roles, valid and invalid UTF-8, and token
\* counts that are not the counter's
StoreInputs ==
    { [role |-> "user", content |-> <<"a">>, tokenCount |-> 0],
      [role |-> "assistant", content |-> <<"a">>, tokenCount |-> 7],
      [role |-> "user", content |-> <<"a", "x">>, tokenCount |-> 7],
      [role |-> "assistant", content |-> <<"a", "x">>, tokenCount |-> 0] }

GptInputs == {[role |-> "user", content |-> <<"a">>]}

StoreConfig(provider) ==
    [ModelName |-> "gpt-4", MaxTotalTokens |-> 6, MaxTokens |-> 1, History |-> TRUE,
     SystemMessage |-> <<"b", "a">>, AIProvider |-> provider]

InitStore ==
    /\ cfg \in {StoreConfig(p) : p \in Providers}
    /\ gptFile = AbsentFile
    /\ histFile = AbsentFile
    /\ req = NoRequest
    /\ ret = NoCall
    /\ prev = Brief(NoCall)
    /\ body = NoBody
    /\ hr = HRStart
    /\ proc = NoProcess
    /\ gHistory = <<>>
    /\ app = NoAppends

Returned(call) == ret' = call /\ prev' = Brief(ret) /\ req' = NoRequest

AppendHistory ==
    /\ Len(histFile.entries) < MaxStore
    /\ \E entry \in StoreInputs, io \in IOOutcomes :
          LET r == AppendHistoryOp(histFile, entry, io)
          IN  /\ histFile' = r.file
              /\ Returned([NoCall EXCEPT !.op = "AppendHistory", !.err = r.err,
                                         !.entry = entry, !.before = histFile.kind])
    /\ UNCHANGED <<cfg, gptFile, body, hr, proc, gHistory, app>>

CallLoadHistory ==
    /\ LET r == LoadHistory(histFile)
       IN  Returned([NoCall EXCEPT !.op = "LoadHistory", !.err = r.err, !.val = r.val,
                                   !.before = histFile.kind])
    /\ UNCHANGED <<cfg, gptFile, histFile, body, hr, proc, gHistory, app>>

ClearHistory ==
    /\ \E io \in {"ok", "fail"} :
          LET r == ClearHistoryOp(histFile, io)
          IN  /\ histFile' = r.file
              /\ Returned([NoCall EXCEPT !.op = "ClearHistory", !.err = r.err,
                                         !.before = histFile.kind])
    /\ UNCHANGED <<cfg, gptFile, body, hr, proc, gHistory, app>>

GPTAppendHistory ==
    /\ Len(gptFile.entries) < MaxStore
    /\ \E message \in GptInputs, io \in IOOutcomes :
          LET r == GPTAppendHistoryOp(gptFile, message, io)
          IN  /\ gptFile' = r.file
              /\ Returned([NoCall EXCEPT !.op = "GPT.AppendHistory", !.err = r.err,
                                         !.before = gptFile.kind])
    /\ UNCHANGED <<cfg, histFile, body, hr, proc, gHistory, app>>

GPTClearHistory ==
    /\ \E io \in {"ok", "fail"} :
          LET r == GPTClearHistoryOp(gptFile, io)
          IN  /\ gptFile' = r.file
              /\ Returned([NoCall EXCEPT !.op = "GPT.ClearHistory", !.err = r.err,
                                         !.before = gptFile.kind])
    /\ UNCHANGED <<cfg, histFile, body, hr, proc, gHistory, app>>

\* common.GenerateCompletion on the stores as they are
CallGenerateCompletion ==
    /\ \E userMessage \in {<<"b">>, <<"b", "b", "b", "b">>}, net \in NetOutcomes :
          LET b == [lines |-> <<EvA, EvStop, DoneLine>>, tail |-> <<>>, end |-> "EOF"]
              r == IF cfg.AIProvider = "azure"
                   THEN AzureGenerateCompletion(cfg, histFile, userMessage, net, b)
                   ELSE GenerateCompletion(cfg, gptFile, userMessage, net, b)
          IN  /\ req' = r
              /\ ret' = [NoCall EXCEPT !.op = "GenerateCompletion", !.err = r.err]
              /\ prev' = Brief(ret)
    /\ UNCHANGED <<cfg, gptFile, histFile, body, hr, proc, gHistory, app>>

NextStore ==
    \/ AppendHistory
    \/ CallLoadHistory
    \/ ClearHistory
    \/ GPTAppendHistory
    \/ GPTClearHistory
    \/ CallGenerateCompletion

SpecStore == InitStore /\ [][NextStore]_vars

----------------------------------------------------------------------------
(* Two processes appending to one history file: helpers.AppendHistory taken
   one file operation at a time *)

\* Variant of Rewritten (sensitivity of C21): the write adds the new entry to
\* what the file holds instead of replacing the file with the caller's copy.
RewrittenOnto(file, history) ==
    [kind |-> "array",
     entries |-> LoadHistory(file).val \o MarshalEntries(<<Last(history)>>)]

\* os.OpenFile with O_TRUNC: the file exists and is empty, and the decoder of
\* LoadHistory fails on it
Truncated == [kind |-> "corrupt", entries |-> <<>>]

\* json.Marshal(history) written from offset 0. LoadHistory decodes the first
\* JSON value of the file only, so what it reads afterwards is this array,
\* whatever bytes an earlier, longer write of another process left behind it.
Rewritten(file, history) == [kind |-> "array", entries |-> MarshalEntries(history)]

RaceFiles ==
    {AbsentFile,
     [kind |-> "array", entries |-> <<Stored([role |-> "user", content |-> <<"b">>])>>]}

InitRace ==
    /\ cfg = StoreConfig("openai")
    /\ gptFile = AbsentFile
    /\ histFile \in RaceFiles
    /\ req = NoRequest
    /\ ret = NoCall
    /\ prev = Brief(NoCall)
    /\ body = NoBody
    /\ hr = HRStart
    /\ proc = NoProcess
    /\ gHistory = <<>>
    /\ app = NoAppends

\* AppendHistory up to the open: count the entry, load the file, append to the
\* loaded slice. No lock is taken and the other process is not looked at.
RaceLoad(p) ==
    /\ app[p].pc \in {"idle", "returned"}
    /\ Len(histFile.entries) < MaxStore
    /\ \E entry \in StoreInputs :
          LET counted == [entry EXCEPT
                             !.tokenCount = HelpersCountTokens(entry.content, "gpt-4").n]
              history == LoadHistory(histFile)
          IN  app' = [app EXCEPT ![p] =
                        IF history.err
                        THEN [NoAppend EXCEPT !.pc = "returned", !.entry = entry,
                                              !.err = TRUE]
                        ELSE [NoAppend EXCEPT !.pc = "loaded", !.entry = entry,
                                              !.loaded = history.val,
                                              !.history = Append(history.val, counted)]]
    /\ UNCHANGED <<cfg, gptFile, histFile, req, ret, prev, body, hr, proc, gHistory>>

\* os.OpenFile(historyFile, O_WRONLY|O_CREATE|O_TRUNC)
RaceOpen(p) ==
    /\ app[p].pc = "loaded"
    /\ \E io \in {"ok", "openfail"} :
          IF io = "openfail"
          THEN /\ app' = [app EXCEPT ![p].pc = "returned", ![p].err = TRUE]
               /\ UNCHANGED histFile
          ELSE /\ app' = [app EXCEPT ![p].pc = "opened"]
               /\ histFile' = Truncated
    /\ UNCHANGED <<cfg, gptFile, req, ret, prev, body, hr, proc, gHistory>>

\* json.Marshal and file.Write; a failed write has put none or some of the bytes
RaceWrite(p) ==
    /\ app[p].pc = "opened"
    /\ \E io \in {"ok", "writefail"} :
          IF io = "writefail"
          THEN /\ app' = [app EXCEPT ![p].pc = "returned", ![p].err = TRUE]
               /\ histFile' \in {histFile, Truncated}
          ELSE /\ app' = [app EXCEPT ![p].pc = "returned"]
               /\ histFile' = Rewritten(histFile, app[p].history)
    /\ UNCHANGED <<cfg, gptFile, req, ret, prev, body, hr, proc, gHistory>>

NextRace ==
    \/ \E p \in Procs : RaceLoad(p)
    \/ \E p \in Procs : RaceOpen(p)
    \/ \E p \in Procs : RaceWrite(p)

SpecRace == InitRace /\ [][NextRace]_vars

\* both processes have returned success from calls that loaded the same content
Overlapped ==
    /\ \A p \in Procs : app[p].pc = "returned" /\ ~app[p].err
    /\ app[1].loaded = app[2].loaded

\* C21: AppendHistory takes no lock, so two appends can overlap, and when two
\* overlapping appends have both reported success the file holds what one of
\* them wrote: the content both loaded followed by one of the two entries.
\* The other entry is lost.
C21_LostUpdate ==
    Overlapped =>
        /\ ~LoadHistory(histFile).err
        /\ LoadHistory(histFile).val \in {MarshalEntries(app[p].history) : p \in Procs}
        /\ Len(LoadHistory(histFile).val) = Len(app[1].loaded) + 1

\* both appends succeeded on a one-entry file with different entries, and the
\* file holds the entry of process 2 and not that of process 1
C21_Witness ==
    /\ Overlapped
    /\ Len(app[1].loaded) = 1
    /\ app[1].entry.role # app[2].entry.role
    /\ LoadHistory(histFile).val = MarshalEntries(app[2].history)
    /\ \A i \in 1..Len(LoadHistory(histFile).val) :
          LoadHistory(histFile).val[i].role # app[1].entry.role

----------------------------------------------------------------------------
(* Claims about the history store *)

AppendedThenLoaded ==
    ret.op = "LoadHistory" /\ prev.op = "AppendHistory" /\ ~prev.err

\* C5 (as amended): after AppendHistory, LoadHistory returns a sequence whose last
\* element has the role of the appended entry, its content with every invalid
\* UTF-8 byte replaced by U+FFFD (the same content when it is valid UTF-8), and
\* the token count of the appended content, whatever count the caller passed.
C5_RoundTripCoerced ==
    AppendedThenLoaded =>
        /\ ~ret.err
        /\ ret.val # <<>>
        /\ Last(ret.val).role = prev.entry.role
        /\ Last(ret.val).content = JSONString(prev.entry.content)
        /\ Last(ret.val).tokenCount = Encode(prev.entry.content)

C5_Witness ==
    /\ AppendedThenLoaded
    /\ prev.entry.tokenCount = 7
    /\ Last(ret.val).tokenCount = 1
    /\ Last(ret.val).content = prev.entry.content
    /\ Len(ret.val) >= 2

\* C5 (as stated): the last element loaded has the content of the appended entry.
C5_RoundTripExact ==
    AppendedThenLoaded =>
        /\ ~ret.err
        /\ ret.val # <<>>
        /\ Last(ret.val).role = prev.entry.role
        /\ Last(ret.val).content = prev.entry.content
        /\ Last(ret.val).tokenCount = Encode(prev.entry.content)

\* C6: a missing history file loads as the empty history without error; a request
\* built then holds only the system and the user message, and the first
\* AppendHistory leaves a history of one element.
C6_MissingFileIsEmptyHistory ==
    /\ (ret.op = "LoadHistory" /\ ret.before = "absent") => (~ret.err /\ ret.val = <<>>)
    /\ (req.path = "azure" /\ histFile.kind = "absent")
          => (req.sent /\ req.msgs = <<SystemMsg, UserMsg>>)
    /\ (/\ req.path = "openai" /\ gptFile.kind = "absent"
        /\ CountTokens(cfg.SystemMessage, cfg.ModelName)
             + CountTokens(req.user, cfg.ModelName) <= Budget(cfg))
          => (req.sent /\ req.msgs = <<SystemMsg, UserMsg>>)
    /\ (ret.op = "AppendHistory" /\ ~ret.err /\ ret.before = "absent")
          => (~LoadHistory(histFile).err /\ Len(LoadHistory(histFile).val) = 1)

C6_Witness ==
    /\ ret.op = "AppendHistory" /\ ~ret.err /\ ret.before = "absent"
    /\ prev.op = "LoadHistory" /\ ~prev.err /\ prev.before = "absent"
    /\ Len(histFile.entries) = 1

\* C7: after a ClearHistory that succeeded, LoadHistory returns the empty sequence.
C7_LoadAfterClearIsEmpty ==
    (ret.op = "LoadHistory" /\ prev.op = "ClearHistory" /\ ~prev.err)
        => (~ret.err /\ ret.val = <<>>)

C7_Witness ==
    /\ ret.op = "LoadHistory" /\ prev.op = "ClearHistory" /\ ~prev.err
    /\ prev.before = "array"
    /\ ret.val = <<>>

ClearedMissing ==
    \/ ret.op = "ClearHistory" /\ ret.before = "absent"
    \/ ret.op = "GPT.ClearHistory" /\ ret.before = "absent"

ClearedFile == IF ret.op = "ClearHistory" THEN histFile ELSE gptFile

\* C8 (as amended): ClearHistory on a missing file returns an error (the error of
\* os.Remove, wrapped) and leaves the file missing.
C8_ClearMissingFails ==
    ClearedMissing => (ret.err /\ ClearedFile.kind = "absent")

C8_Witness ==
    /\ ret.op = "ClearHistory" /\ ret.before = "absent" /\ ret.err
    /\ prev.op = "ClearHistory" /\ ~prev.err

\* C8 (as stated): ClearHistory on a missing file returns no error and leaves the
\* store empty.
C8_ClearMissingIsNoError ==
    ClearedMissing => (~ret.err /\ ClearedFile.kind = "absent")

----------------------------------------------------------------------------
(* The streaming reader, line by line *)

LinePool ==
    {EvA, EvStop, EvNewline, EvNoChoices, DoneLine, GarbageLine, BlankLine, UnmarkedEvent}

\* the user message of the call whose response is read
StreamUser == <<"b">>

\* the revision of package gpt the running main is built on: the gpt main is
\* built on the one that tabs each chunk
Tabs == proc.entry = "gpt main"

Bodies ==
    [lines : SeqsUpTo(LinePool, MaxLines), tail : {<<>>, <<EvB>>}, end : {"EOF", "err"}]

InitStream ==
    /\ \/ /\ proc = [NoProcess EXCEPT !.entry = "cmd/main.go"]
          /\ cfg \in {[StoreConfig("openai") EXCEPT !.ModelName = m] : m \in ModelNames}
       \/ /\ proc = [NoProcess EXCEPT !.entry = "gpt main"]
          /\ cfg = StoreConfig("openai")
    /\ gptFile = AbsentFile
    /\ histFile = AbsentFile
    /\ req = NoRequest
    /\ ret = NoCall
    /\ prev = Brief(NoCall)
    /\ body \in Bodies
    /\ hr = HRStart
    /\ gHistory = <<>>
    /\ app = NoAppends

\* one pass of the read loop of GPT.HandleResponse
ReadLine ==
    /\ hr.st = "reading"
    /\ hr' = HRStep(hr, body, cfg.ModelName, Tabs)
    /\ UNCHANGED <<cfg, gptFile, histFile, req, ret, prev, body, proc, gHistory, app>>

\* GPT.GenerateCompletion after HandleResponse has returned (or panicked)
ReturnCompletion ==
    /\ hr.st # "reading"
    /\ req = NoRequest
    /\ req' = SendAndRead(IF Tabs THEN SnapshotCreatePayload(cfg, gHistory, StreamUser)
                          ELSE CreatePayload(cfg, gptFile, StreamUser),
                          StreamUser, "ok", hr)
    /\ UNCHANGED <<cfg, gptFile, histFile, ret, prev, body, hr, proc, gHistory, app>>

NextStream ==
    \/ ReadLine
    \/ ReturnCompletion

SpecStream == InitStream /\ [][NextStream]_vars

----------------------------------------------------------------------------
(* Claims about the streaming reader *)

\* C10: once the reader has read the line "data: [DONE]", no line that follows it
\* is decoded, and none changes the reply, the token tally or the error outcome.
C10_NothingAfterDone ==
    [][(hr.sawDone /\ hr.st = "reading" /\ hr.pos <= Len(body.lines))
          => /\ hr'.decoded = hr.decoded
             /\ hr'.assistantMsg = hr.assistantMsg
             /\ hr'.totalResponseTokens = hr.totalResponseTokens
             /\ hr'.st = "reading"]_vars

----------------------------------------------------------------------------
(* Claims about the streamed response *)

\* the line the reader is about to read
AtLine == body.lines[hr.pos]

\* the line the reader read last
ReadLast == body.lines[hr.pos - 1]

\* C11: a line that holds the sentinel [DONE] after "data: " is not handed to the
\* decoder: reading it raises no error and changes neither the reply nor the
\* response-token tally.
C11_SentinelNotDecoded ==
    [][(hr.st = "reading" /\ hr.pos <= Len(body.lines) /\ AtLine = DoneLine)
          => /\ hr'.decoded = hr.decoded
             /\ hr'.assistantMsg = hr.assistantMsg
             /\ hr'.totalResponseTokens = hr.totalResponseTokens
             /\ hr'.st = "reading"
             /\ hr'.pos = hr.pos + 1]_vars

C11_Witness ==
    /\ hr.st = "reading" /\ hr.pos = 3
    /\ body.lines[1] = EvA /\ body.lines[2] = DoneLine
    /\ hr.sawDone /\ hr.decoded = 1
    /\ hr.assistantMsg = <<"a">>

\* the content deltas of the events of a body that the reader decodes, in stream order
RECURSIVE Deltas(_)
Deltas(lines) ==
    IF lines = <<>> THEN <<>>
    ELSE IF lines[1].prefix /\ lines[1].kind = "event" /\ lines[1].choices # <<>>
         THEN <<lines[1].choices[1].content>> \o Deltas(Tail(lines))
    ELSE Deltas(Tail(lines))

RECURSIVE Concat(_)
Concat(texts) == IF texts = <<>> THEN <<>> ELSE texts[1] \o Concat(Tail(texts))

RECURSIVE SumCounts(_, _)
SumCounts(texts, modelName) ==
    IF texts = <<>> THEN 0
    ELSE CountTokens(texts[1], modelName) + SumCounts(Tail(texts), modelName)

\* C12: when HandleResponse returns without error, the reply is the concatenation
\* of the content deltas of the decoded events, nothing added or altered, and the
\* token count is the sum of the counts of those deltas.
C12_ReplyIsConcatenation ==
    hr.st = "ok" =>
        /\ hr.reply = Concat(Deltas(body.lines))
        /\ hr.tokens = SumCounts(Deltas(body.lines), cfg.ModelName)

FailedDecode ==
    /\ hr.pos > 1 /\ hr.pos - 1 <= Len(body.lines)
    /\ ReadLast.prefix /\ ReadLast.kind = "garbage"

\* C13: a "data: " line that is not the sentinel and does not decode fails the
\* call: HandleResponse returns an error with an empty reply and a zero count and
\* reads no further line, and GenerateCompletion returns the error after its one
\* request.
C13_DecodeFailureIsFatal ==
    FailedDecode =>
        /\ hr.st = "err" /\ hr.reply = <<>> /\ hr.tokens = 0
        /\ req # NoRequest => (req.err /\ req.reply = <<>> /\ req.sends = 1)

C13_Witness ==
    /\ FailedDecode
    /\ hr.pos = 3 /\ Len(body.lines) = 3
    /\ body.lines[1] = EvA /\ body.lines[3] = EvA
    /\ hr.assistantMsg = <<"a">> /\ hr.decoded = 2
    /\ req.err /\ req.sends = 1

\* the reader has met an error that is not the end of the file
ReadFailed ==
    hr.pos > Len(body.lines) /\ body.end = "err" /\ hr.st \notin {"reading", "panic"}

StopProcessed ==
    \E i \in 1..(hr.pos - 1) :
        /\ i <= Len(body.lines)
        /\ body.lines[i].prefix /\ body.lines[i].kind = "event"
        /\ body.lines[i].choices # <<>>
        /\ body.lines[i].choices[1].finish = "stop"

\* C25: once an event with finish_reason "stop" has been handled the loop ends:
\* no later event is decoded, and the reply and the tally stay those accumulated
\* up to and including that event.
C25_NothingAfterStop ==
    [][(StopProcessed /\ hr.st = "reading" /\ hr.pos <= Len(body.lines))
          => /\ hr'.decoded = hr.decoded
             /\ hr'.assistantMsg = hr.assistantMsg
             /\ hr'.totalResponseTokens = hr.totalResponseTokens]_vars

\* C26: a line that does not start with "data: " is ignored, wherever it stands:
\* it is not decoded and changes neither the reply, nor the tally, nor the
\* outcome.
C26_UnmarkedLineIgnored ==
    [][(hr.st = "reading" /\ hr.pos <= Len(body.lines) /\ ~AtLine.prefix)
          => /\ hr'.decoded = hr.decoded
             /\ hr'.assistantMsg = hr.assistantMsg
             /\ hr'.totalResponseTokens = hr.totalResponseTokens
             /\ hr'.st = "reading"
             /\ hr'.pos = hr.pos + 1]_vars

C26_Witness ==
    /\ hr.st = "reading" /\ hr.pos = 4
    /\ body.lines[1] = EvA /\ body.lines[2] = UnmarkedEvent /\ body.lines[3] = BlankLine
    /\ hr.decoded = 1
    /\ hr.assistantMsg = <<"a">>

\* C27: HandleResponse returns, with a reply or with an error, for every stream
\* of well-formed events, one with an empty or missing choices list included:
\* it never indexes outside the list.
C27_NoIndexOutOfRange == hr.st # "panic"

\* the body without what follows its last newline
WithoutTail == [body EXCEPT !.tail = <<>>]

\* C28: what follows the last newline of a stream that ends is discarded: a last
\* event without a newline adds nothing to the reply or the tally, and the call
\* ends as it does without it.
C28_LastLineWithoutNewlineDropped ==
    (hr.st # "reading" /\ body.tail # <<>> /\ body.end = "EOF")
    => /\ hr.st = HandleResponse(WithoutTail, cfg.ModelName, Tabs).st
       /\ hr.reply = HandleResponse(WithoutTail, cfg.ModelName, Tabs).reply
       /\ hr.tokens = HandleResponse(WithoutTail, cfg.ModelName, Tabs).tokens
       /\ hr.decoded = HandleResponse(WithoutTail, cfg.ModelName, Tabs).decoded

C28_Witness ==
    /\ hr.st = "ok" /\ body.tail = <<EvB>> /\ body.end = "EOF"
    /\ body.lines = <<EvA>>
    /\ hr.reply = <<"a">> /\ hr.decoded = 1
    /\ cfg.ModelName \in KnownModels /\ hr.tokens = 1

----------------------------------------------------------------------------
(* The command loops.  proc.entry names the main that runs: "cmd/main.go"      *)
(* (helpers store, provider chosen by the configuration) or "gpt main", the    *)
(* earlier main built on package gpt alone.  proc.exit is -1 while the process *)
(* runs and its exit status afterwards.                                        *)

SessionUserTexts == {<<"b">>, <<"b", "b", "b", "b">>}

PriorHistFile ==
    [kind |-> "array",
     entries |-> << [role |-> "user", content |-> <<"b">>, tokenCount |-> 1],
                    [role |-> "assistant", content |-> <<"a">>, tokenCount |-> 1] >>]

PriorGptFile ==
    [kind |-> "lines", entries |-> <<[role |-> "user", content |-> <<"b">>]>>]

\* The history that the gpt package called by common.GenerateCompletion builds
\* its request from: the History Store, here in the form loadHistory returns.
StoreAsCandidates(f) ==
    CASE f.kind = "absent" -> AbsentFile
      [] f.kind = "array" ->
            [kind |-> "lines",
             entries |-> [i \in 1..Len(f.entries) |->
                            [role |-> f.entries[i].role, content |-> f.entries[i].content]]]
      [] OTHER -> f

\* what client.Do gives in a turn: a response body, or no response (NoBody) when
\* it fails
Responses == BodySamples \cup {NoBody}

\* what the file system does in the two appends of a turn; the second append
\* runs only after the first succeeded
TurnIO == {<<io1, io2>> \in IOOutcomes \X IOOutcomes : io1 # "ok" => io2 = "ok"}

Started(entry) == [NoProcess EXCEPT !.entry = entry, !.pc = "start"]

Init ==
    /\ \/ /\ proc = Started("cmd/main.go")
          /\ cfg \in {StoreConfig(p) : p \in Providers}
          /\ histFile \in {AbsentFile, PriorHistFile}
          /\ gptFile = AbsentFile
       \/ /\ proc = Started("gpt main")
          /\ cfg = StoreConfig("openai")
          /\ histFile = AbsentFile
          /\ gptFile \in {AbsentFile, PriorGptFile}
    /\ req = NoRequest
    /\ ret = NoCall
    /\ prev = Brief(NoCall)
    /\ body = NoBody
    /\ hr = HRStart
    /\ gHistory = <<>>
    /\ app = NoAppends

Exited(status, cmd, shown) ==
    [proc EXCEPT !.pc = "exited", !.exit = status, !.cmd = cmd, !.shown = shown]

\* handlePrompt has returned: a single prompt is followed by os.Exit(0), the loop
\* by the next prompt
Handled(cmd, shown) ==
    IF proc.single THEN Exited(0, cmd, shown)
    ELSE [proc EXCEPT !.pc = "prompt", !.cmd = cmd, !.shown = shown]

\* cmd/main.go up to the first prompt: HandleClearFlag exits with status 1 when
\* ClearHistory fails
MainStart ==
    /\ proc.entry = "cmd/main.go" /\ proc.pc = "start"
    /\ \E clearFlag \in BOOLEAN, single \in BOOLEAN, io \in {"ok", "fail"} :
          LET r == ClearHistoryOp(histFile, io)
              call == [NoCall EXCEPT !.op = "ClearHistory", !.err = r.err,
                                     !.before = histFile.kind]
          IN  IF ~clearFlag
              THEN /\ proc' = [proc EXCEPT !.pc = "prompt", !.single = single]
                   /\ UNCHANGED <<histFile, ret, prev>>
              ELSE /\ histFile' = r.file
                   /\ ret' = call
                   /\ prev' = Brief(ret)
                   /\ proc' = IF r.err THEN Exited(1, "clear flag", "error")
                              ELSE [proc EXCEPT !.pc = "prompt", !.single = single,
                                                !.cmd = "clear flag"]
    /\ UNCHANGED <<cfg, gptFile, req, body, hr, gHistory, app>>

\* handlePrompt, "--exit" or "--quit"
MainExit ==
    /\ proc.entry = "cmd/main.go" /\ proc.pc = "prompt"
    /\ proc' = Exited(0, "--exit", "none")
    /\ UNCHANGED <<cfg, gptFile, histFile, req, ret, prev, body, hr, gHistory, app>>

\* handlePrompt, "--config": the configuration is edited and loaded again
MainConfig ==
    /\ proc.entry = "cmd/main.go" /\ proc.pc = "prompt"
    /\ proc' = Handled("--config", "none")
    /\ UNCHANGED <<cfg, gptFile, histFile, req, ret, prev, body, hr, gHistory, app>>

\* handlePrompt, "--clear": the error of ClearHistory is dropped without a word
MainClear ==
    /\ proc.entry = "cmd/main.go" /\ proc.pc = "prompt"
    /\ \E io \in {"ok", "fail"} :
          LET r == ClearHistoryOp(histFile, io)
          IN  /\ histFile' = r.file
              /\ ret' = [NoCall EXCEPT !.op = "ClearHistory", !.err = r.err,
                                       !.before = histFile.kind]
              /\ prev' = Brief(ret)
    /\ proc' = Handled("--clear", "none")
    /\ UNCHANGED <<cfg, gptFile, req, body, hr, gHistory, app>>

\* Variant of MainTurn that appends the user entry before it looks at the error
\* of the completion (sensitivity of C15).
MainTurnAppendsFirst ==
    /\ proc.entry = "cmd/main.go" /\ proc.pc = "prompt"
    /\ Len(histFile.entries) + 2 <= MaxSession
    /\ \E userMessage \in SessionUserTexts, b \in Responses, io \in TurnIO :
          LET net == IF b = NoBody THEN "fail" ELSE "ok"
              io1 == io[1]
              io2 == io[2]
              r == IF cfg.AIProvider = "azure"
                   THEN AzureGenerateCompletion(cfg, histFile, userMessage, net, b)
                   ELSE GenerateCompletion(cfg, StoreAsCandidates(histFile),
                                           userMessage, net, b)
              a1 == AppendHistoryOp(histFile,
                        [role |-> "user", content |-> userMessage, tokenCount |-> 0], io1)
              a2 == AppendHistoryOp(a1.file,
                        [role |-> "assistant", content |-> r.reply, tokenCount |-> 0], io2)
          IN  /\ req' = r
              /\ body' = b
              /\ IF r.panic
                 THEN /\ proc' = Exited(2, "turn", "error")
                      /\ UNCHANGED <<histFile, ret, prev>>
                 ELSE IF r.err
                 THEN /\ proc' = Handled("turn", IF r.logged THEN "error" ELSE "none")
                      /\ histFile' = a1.file
                      /\ UNCHANGED <<ret, prev>>
                 ELSE IF a1.err
                 THEN /\ histFile' = a1.file
                      /\ ret' = [NoCall EXCEPT !.op = "AppendHistory", !.err = TRUE,
                                   !.before = histFile.kind]
                      /\ prev' = Brief(ret)
                      /\ proc' = Handled("turn", "reply")
                 ELSE /\ histFile' = a2.file
                      /\ ret' = [NoCall EXCEPT !.op = "AppendHistory", !.err = a2.err,
                                   !.before = a1.file.kind]
                      /\ prev' = [Brief(NoCall) EXCEPT !.op = "AppendHistory",
                                   !.before = histFile.kind]
                      /\ proc' = Handled("turn", "reply")
    /\ UNCHANGED <<cfg, gptFile, hr, gHistory, app>>

\* handlePrompt, a prompt: the completion, then the two appends
MainTurn ==
    /\ proc.entry = "cmd/main.go" /\ proc.pc = "prompt"
    /\ Len(histFile.entries) + 2 <= MaxSession
    /\ \E userMessage \in SessionUserTexts, b \in Responses, io \in TurnIO :
          LET net == IF b = NoBody THEN "fail" ELSE "ok"
              io1 == io[1]
              io2 == io[2]
              r == IF cfg.AIProvider = "azure"
                   THEN AzureGenerateCompletion(cfg, histFile, userMessage, net, b)
                   ELSE GenerateCompletion(cfg, StoreAsCandidates(histFile),
                                           userMessage, net, b)
              a1 == AppendHistoryOp(histFile,
                        [role |-> "user", content |-> userMessage, tokenCount |-> 0], io1)
              a2 == AppendHistoryOp(a1.file,
                        [role |-> "assistant", content |-> r.reply, tokenCount |-> 0], io2)
          IN  /\ req' = r
              /\ body' = b
              /\ IF r.panic
                 THEN /\ proc' = Exited(2, "turn", "error")
                      /\ UNCHANGED <<histFile, ret, prev>>
                 ELSE IF r.err
                 THEN /\ proc' = Handled("turn", IF r.logged THEN "error" ELSE "none")
                      /\ UNCHANGED <<histFile, ret, prev>>
                 ELSE IF a1.err
                 THEN /\ histFile' = a1.file
                      /\ ret' = [NoCall EXCEPT !.op = "AppendHistory", !.err = TRUE,
                                   !.before = histFile.kind]
                      /\ prev' = Brief(ret)
                      /\ proc' = Handled("turn", "reply")
                 ELSE /\ histFile' = a2.file
                      /\ ret' = [NoCall EXCEPT !.op = "AppendHistory", !.err = a2.err,
                                   !.before = a1.file.kind]
                      /\ prev' = [Brief(NoCall) EXCEPT !.op = "AppendHistory",
                                   !.before = histFile.kind]
                      /\ proc' = Handled("turn", "reply")
    /\ UNCHANGED <<cfg, gptFile, hr, gHistory, app>>

\* the gpt main up to the first prompt: gpt.New loads g.history; a ClearHistory
\* that fails is reported and main returns
GptStart ==
    /\ proc.entry = "gpt main" /\ proc.pc = "start"
    /\ gHistory' = loadHistory(gptFile).val
    /\ \E clearFlag \in BOOLEAN, io \in {"ok", "fail"} :
          LET r == GPTClearHistoryOp(gptFile, io)
          IN  IF cfg.ModelName \notin KnownModels /\ gHistory' # <<>>
              THEN /\ proc' = Exited(0, "none", "error")
                   /\ UNCHANGED <<gptFile, ret, prev>>
              ELSE IF ~clearFlag
              THEN /\ proc' = [proc EXCEPT !.pc = "prompt"]
                   /\ UNCHANGED <<gptFile, ret, prev>>
              ELSE /\ gptFile' = r.file
                   /\ ret' = [NoCall EXCEPT !.op = "GPT.ClearHistory", !.err = r.err,
                                            !.before = gptFile.kind]
                   /\ prev' = Brief(ret)
                   /\ proc' = IF r.err THEN Exited(0, "clear flag", "error")
                              ELSE [proc EXCEPT !.pc = "prompt", !.cmd = "clear flag"]
    /\ UNCHANGED <<cfg, histFile, req, body, hr, app>>

\* the loop, "--exit" or "--quit"
GptExit ==
    /\ proc.entry = "gpt main" /\ proc.pc = "prompt"
    /\ proc' = Exited(0, "--exit", "none")
    /\ UNCHANGED <<cfg, gptFile, histFile, req, ret, prev, body, hr, gHistory, app>>

\* the loop, "--config": the configuration is loaded again and g made anew
GptConfig ==
    /\ proc.entry = "gpt main" /\ proc.pc = "prompt"
    /\ gHistory' = loadHistory(gptFile).val
    /\ proc' = Handled("--config", "none")
    /\ UNCHANGED <<cfg, gptFile, histFile, req, ret, prev, body, hr, app>>

\* the loop, "--clear": a failure is reported in red, a success as "History cleared."
GptClear ==
    /\ proc.entry = "gpt main" /\ proc.pc = "prompt"
    /\ \E io \in {"ok", "fail"} :
          LET r == GPTClearHistoryOp(gptFile, io)
          IN  /\ gptFile' = r.file
              /\ ret' = [NoCall EXCEPT !.op = "GPT.ClearHistory", !.err = r.err,
                                       !.before = gptFile.kind]
              /\ prev' = Brief(ret)
              /\ proc' = Handled("--clear", IF r.err THEN "error" ELSE "cleared")
    /\ UNCHANGED <<cfg, histFile, req, body, hr, gHistory, app>>

\* the loop, a prompt: the completion, then the append of the user message
GptTurn ==
    /\ proc.entry = "gpt main" /\ proc.pc = "prompt"
    /\ Len(gptFile.entries) + 1 <= MaxSession
    /\ \E userMessage \in SessionUserTexts, b \in Responses, io \in IOOutcomes :
          LET net == IF b = NoBody THEN "fail" ELSE "ok"
              r == SnapshotGenerateCompletion(cfg, gHistory, userMessage, net, b)
              a == GPTAppendHistoryOp(gptFile,
                        [role |-> "user", content |-> userMessage], io)
          IN  /\ req' = r
              /\ body' = b
              /\ IF r.panic
                 THEN /\ proc' = Exited(2, "turn", "error")
                      /\ UNCHANGED <<gptFile, ret, prev>>
                 ELSE IF r.err
                 THEN /\ proc' = Handled("turn", "error")
                      /\ UNCHANGED <<gptFile, ret, prev>>
                 ELSE /\ gptFile' = a.file
                      /\ ret' = [NoCall EXCEPT !.op = "GPT.AppendHistory", !.err = a.err,
                                   !.before = gptFile.kind]
                      /\ prev' = Brief(ret)
                      /\ proc' = Handled("turn", IF a.err THEN "error" ELSE "reply")
    /\ UNCHANGED <<cfg, histFile, hr, gHistory, app>>

Next ==
    \/ MainStart
    \/ MainExit
    \/ MainConfig
    \/ MainClear
    \/ MainTurn
    \/ GptStart
    \/ GptExit
    \/ GptConfig
    \/ GptClear
    \/ GptTurn

Spec == Init /\ [][Next]_vars

----------------------------------------------------------------------------
(* Claims about the command loops *)

\* C9: a clear request on a missing history file is reported to the user and is
\* not fatal, at start-up (the --clear flag) and at the prompt ("--clear"): the
\* process runs on and takes the next prompt.
C9_ClearMissingNotFatal ==
    (/\ proc.cmd \in {"clear flag", "--clear"}
     /\ ret.op \in {"ClearHistory", "GPT.ClearHistory"}
     /\ ret.before = "absent"
     /\ ~proc.single)
    => (proc.pc = "prompt" /\ proc.exit = -1 /\ proc.shown = "error")

\* a step that handles a prompt as a turn
TurnStep == proc.pc = "prompt" /\ proc'.cmd = "turn" /\ vars' # vars

\* the history file the running main appends to
Store == IF proc.entry = "gpt main" THEN gptFile ELSE histFile

\* C15: when the completion call of a turn returns an error, the history files
\* after the turn are the history files before it: nothing is appended.
C15_FailedTurnKeepsStore ==
    [][(TurnStep /\ req'.err) => (histFile' = histFile /\ gptFile' = gptFile)]_vars

C15_Witness ==
    /\ proc.cmd = "turn" /\ proc.pc = "prompt"
    /\ req.err /\ req.sent
    /\ histFile = PriorHistFile

\* C16: a turn that succeeds adds exactly two entries to the store: the user
\* message that was sent, then the reply accumulated from the stream.
C16_TurnAppendsUserThenReply ==
    [][(TurnStep /\ ~req'.err /\ ~req'.panic /\ ~ret'.err) =>
          LET before == Store.entries
              after == Store'.entries
              n == Len(before)
          IN  /\ Len(after) = n + 2
              /\ SubSeq(after, 1, n) = before
              /\ after[n + 1].role = "user"
              /\ after[n + 1].content = req'.user
              /\ after[n + 2].role = "assistant"
              /\ after[n + 2].content = Concat(Deltas(body'.lines))]_vars

\* the store's content as the messages a request can carry
StoreMsgs ==
    IF proc.entry = "gpt main" THEN loadHistory(gptFile).val
    ELSE [i \in 1..Len(LoadHistory(histFile).val) |->
             [role |-> LoadHistory(histFile).val[i].role,
              content |-> LoadHistory(histFile).val[i].content]]

\* C17: the request of a turn is built from the store's current content: it
\* holds the newest stored entry when the budget allows, and no history entry
\* when the store is empty (as it is after a clear).
C17_RequestSeesStore ==
    [][(TurnStep /\ req'.sent) =>
          LET hist == SubSeq(req'.msgs, 1, Len(req'.msgs) - 2)
          IN  /\ StoreMsgs = <<>> => hist = <<>>
              /\ (/\ StoreMsgs # <<>>
                  /\ CountTokens(cfg.SystemMessage, cfg.ModelName)
                       + CountTokens(req'.user, cfg.ModelName)
                       + CountTokens(Last(StoreMsgs).content, cfg.ModelName)
                          <= Budget(cfg))
                 => \E i \in 1..Len(hist) : hist[i] = MarshalMsg(Last(StoreMsgs))]_vars

\* C18: with a prompt on the command line the process exits with status zero
\* only when the turn succeeded, and with another status when it failed.
C18_SingleShotExitStatus ==
    (proc.single /\ proc.pc = "exited" /\ proc.cmd = "turn")
    => (proc.exit = 0 <=> (~req.err /\ ~req.panic /\ ret.op = "AppendHistory" /\ ~ret.err))

\* C19: in the loop a turn whose completion fails is reported to the user and
\* followed by the next prompt.
C19_FailedTurnReported ==
    (~proc.single /\ proc.cmd = "turn" /\ (req.err \/ req.panic))
    => (proc.pc = "prompt" /\ proc.shown = "error")

\* C22: the store is mutated only by appending: over any AppendHistory call on
\* a loadable store, with no clear in between, the sequence loaded before the
\* call is a prefix of the sequence loaded after it, and a successful call
\* adds exactly one entry (nothing is reordered, modified or dropped).
C22_EarlierIsPrefix ==
    [][(ret'.op = "AppendHistory" /\ vars' # vars /\ ~LoadHistory(histFile).err) =>
          LET before == LoadHistory(histFile)
              after == LoadHistory(histFile')
          IN  /\ ~after.err
              /\ Len(before.val) <= Len(after.val)
              /\ SubSeq(after.val, 1, Len(before.val)) = before.val
              /\ ~ret'.err => Len(after.val) = Len(before.val) + 1]_vars

\* C23: between operations the history file is either absent or one JSON
\* array that LoadHistory decodes, whatever appends and clears came before,
\* failed ones included.
C23_FileAlwaysLoadable == ~LoadHistory(histFile).err

CompleteTurns(entries) ==
    /\ Len(entries) % 2 = 0
    /\ \A i \in 1..Len(entries) :
          entries[i].role = (IF i % 2 = 1 THEN "user" ELSE "assistant")

\* C29: the store of cmd/main.go holds complete turns: its sequence has even
\* length and alternates user entry, assistant entry, after any successful
\* and failed turns and clears.
C29_CompleteTurns ==
    proc.entry = "cmd/main.go" => CompleteTurns(LoadHistory(histFile).val)

====
